---- MODULE Spec2Model ----
(***************************************************************************)
(* A model of the mediator library: the Mediator (subscriber registry,     *)
(* reader/writer lock, synchronous fan-out in Publish) and its two event   *)
(* stores (Redis keys + timeline list, PostgreSQL table with a trim).      *)
(*                                                                         *)
(* Conventions                                                             *)
(*   - an error is the sequence of the pieces of its message; nil is <<>>; *)
(*     fmt.Errorf("p: %w", e) is <<"p: ">> \o e.                           *)
(*   - a Go payload is [t |-> its dynamic type, v |-> its value]; JSON     *)
(*     text is [j |-> the JSON kind, v |-> the value].                     *)
(*   - time.Now() reads the clock `now`; successive reads never decrease   *)
(*     but may be equal (clock granularity, concurrent callers).           *)
(*   - the durations and caps of DefaultConfig() are scaled down to a few  *)
(*     clock ticks / rows so that expiry and trimming happen in the model. *)
(***************************************************************************)
EXTENDS Integers, Sequences, FiniteSets, TLC

\* ------------------------------------------------------------------ bounds
MaxClock == 3
MaxStoreCalls == 4

\* ------------------------------------------------------------ value domains
Names == {"a", "b"}

PInt == [t |-> "int", v |-> 1]
PFloat == [t |-> "float64", v |-> 2]
PChan == [t |-> "chan", v |-> 0]
Payloads == {PInt, PFloat, PChan}

Events == [Name : Names, Payload : Payloads]

Limits == {-1, 0, 1, 2, 3}

NoError == <<>>

\* the driver's error for a command the backend did not answer
IOError == <<"connection refused">>

Wrap(prefix, err) == <<prefix>> \o err

Max(a, b) == IF a > b THEN a ELSE b
Min(a, b) == IF a < b THEN a ELSE b

Range(s) == {s[i] : i \in 1 .. Len(s)}

\* --------------------------------------------------------------- encoding
\* json.Marshal fails on a channel (json.UnsupportedTypeError)
MarshalError(p) == IF p.t = "chan" THEN <<"json: unsupported type: chan">> ELSE NoError

\* json.Marshal of a payload: ints and floats both become a JSON number
JsonEncode(p) == [j |-> "number", v |-> p.v]

\* json.Unmarshal into interface{}: every JSON number becomes a float64
JsonDecode(x) == [t |-> "float64", v |-> x.v]

\* eventData := map[string]interface{}{"name", "payload", "timestamp"}; json.Marshal
JsonMarshal(ev, ts) == [name |-> ev.Name, payload |-> JsonEncode(ev.Payload), timestamp |-> ts]

\* json.Unmarshal([]byte(data), &event) into map[string]interface{}
JsonUnmarshal(data) == [name |-> data.name, payload |-> JsonDecode(data.payload), timestamp |-> data.timestamp]

\* ------------------------------------------------------------------ state
VARIABLES
    now,          \* the clock time.Now() reads
    storeCalls,   \* events written to a store so far (bounds the model)
    redisKV,      \* Redis keyspace: the event keys, each with its value and expiry
    redisList,    \* Redis lists: event name -> its timeline of keys
    pgRows,       \* the events table
    pgNextId,     \* the table's SERIAL sequence
    storeKind,    \* the backend of the store a client calls directly
    config,       \* backend -> the Config its store was constructed with
    out,          \* the result of that client's last call
    subscribers,  \* Mediator.subscribers
    eventStore,   \* Mediator.eventStore: "nil", "redis" or "postgres"
    readers,      \* Mediator.mu: thread -> read locks it holds
    wHolder,      \* Mediator.mu: the writer that holds or awaits the lock, or "none"
    pc,           \* thread -> where it is in its call
    call,         \* thread -> the call it makes and its arguments
    handlers,     \* thread -> Publish's local `handlers`
    idx,          \* thread -> Publish's position in `handlers`
    errs,         \* thread -> Publish's local `errs`
    trace,        \* thread -> the handler and store calls its Publish has made
    ret,          \* thread -> what its call returned
    globalMediator,  \* the package variable: 0 for nil, else the instance it points to
    mediatorOnce,    \* the sync.Once: "fresh", "running" or "done"
    built,           \* the Mediators constructed so far
    synced,          \* the goroutines that have been through mediatorOnce.Do
    gpc,             \* goroutine -> where it is in New or GetMediator
    gret,            \* goroutine -> the instances its calls have returned, in order
    inflight         \* goroutine -> the StoreEvent it is in the middle of, on a store it shares

storeVars == <<redisKV, redisList, pgRows, pgNextId>>
clientVars == <<storeKind, config, out, inflight>>
singletonVars == <<globalMediator, mediatorOnce, built, synced, gpc, gret>>
medVars == <<subscribers, eventStore, readers, wHolder, pc, call, handlers, idx, errs, trace, ret>>
vars == <<now, storeCalls, redisKV, redisList, pgRows, pgNextId, storeKind, config, out,
          subscribers, eventStore, readers, wHolder, pc, call, handlers, idx, errs, trace, ret,
          globalMediator, mediatorOnce, built, synced, gpc, gret, inflight>>

\* ---------------------------------------------------------- configuration
RedisDefaultConfig == [Prefix |-> "mediator:events", EventTTL |-> 3, MaxEventsPerType |-> 3]

PgDefaultConfig == [Prefix |-> "mediator_events", MaxEventsPerType |-> 3]

\* the Configs a program passes to NewEventStore: DefaultConfig() and one with a
\* shorter EventTTL and a smaller MaxEventsPerType
RedisConfigs == {RedisDefaultConfig,
                 [Prefix |-> "mediator:events", EventTTL |-> 1, MaxEventsPerType |-> 2]}

PgConfigs == {PgDefaultConfig, [Prefix |-> "mediator_events", MaxEventsPerType |-> 2]}

DefaultConfigs == [redis |-> RedisDefaultConfig, postgres |-> PgDefaultConfig]

\* ------------------------------------------------------------ Redis store
\* key := fmt.Sprintf("%s:%s:%d", s.prefix, event.Name, timestamp.UnixNano())
RedisKey(name, ts) == <<name, ts>>

\* the keys that exist in the keyspace
RedisExists(key) == \E e \in redisKV : e.key = key

\* GET key (only used where the key exists)
RedisGet(key) == (CHOOSE e \in redisKV : e.key = key).data

\* SET key data EX ttl: creates the key or overwrites it, value and expiry both
RedisSet(key, data, ttl) ==
    {e \in redisKV : e.key # key} \cup {[key |-> key, data |-> data, exp |-> now + ttl]}

\* LRANGE list start stop: zero-based, inclusive, negative indices count from the tail
LRange(list, start, stop) ==
    LET len == Len(list)
        s == IF start < 0 THEN Max(len + start, 0) ELSE start
        e == IF stop < 0 THEN len + stop ELSE Min(stop, len - 1)
    IN  IF s > e THEN <<>> ELSE SubSeq(list, s + 1, e + 1)

RedisStoreIO == {"ok", "set", "rpush"}

\* the error StoreEvent returns; io names the round trip that fails, if any
RedisStoreEventErr(ev, io) ==
    IF MarshalError(ev.Payload) # NoError
    THEN Wrap("failed to marshal event: ", MarshalError(ev.Payload))
    ELSE IF io = "set" THEN Wrap("failed to store event: ", IOError)
    ELSE IF io = "rpush" THEN Wrap("failed to push event to list: ", IOError)
    ELSE NoError

\* whether StoreEvent gets as far as a successful SET
RedisWrites(ev, io) == MarshalError(ev.Payload) = NoError /\ io # "set"

\* the keyspace after StoreEvent: SET with the default TTL
RedisStoreEventKV(ev, io) ==
    IF RedisWrites(ev, io)
    THEN RedisSet(RedisKey(ev.Name, now), JsonMarshal(ev, now), RedisDefaultConfig.EventTTL)
    ELSE redisKV

\* the RPUSH made although the SET has failed
RedisStoreEventListWithoutSet(ev, io) ==
    IF MarshalError(ev.Payload) = NoError /\ io # "rpush"
    THEN [redisList EXCEPT ![ev.Name] = Append(@, RedisKey(ev.Name, now))]
    ELSE redisList

\* the timelines after StoreEvent: RPUSH of the key, once the SET has succeeded
RedisStoreEventList(ev, io) ==
    IF RedisWrites(ev, io) /\ io = "ok"
    THEN [redisList EXCEPT ![ev.Name] = Append(@, RedisKey(ev.Name, now))]
    ELSE redisList

\* StoreEvent's effect on the keyspace: SET with the default TTL, then RPUSH
RedisStoreEvent(ev, io) ==
    /\ redisKV' = RedisStoreEventKV(ev, io)
    /\ redisList' = RedisStoreEventList(ev, io)
    /\ UNCHANGED <<pgRows, pgNextId>>

RedisReadIO == {"ok", "lrange", "exec"}

\* events = append(events, event) for every command that did not answer redis.Nil
RedisDecode(keys) ==
    LET live == SelectSeq(keys, LAMBDA k : RedisExists(k))
    IN  [i \in 1 .. Len(live) |-> JsonUnmarshal(RedisGet(live[i]))]

\* a redis.Nil answer treated as a failure of the read
RedisGetEventsFailOnNil(eventName, limit, io) ==
    LET lim == IF limit <= 0 THEN RedisDefaultConfig.MaxEventsPerType ELSE limit
        keys == LRange(redisList[eventName], -lim, -1)
    IN  IF io = "lrange"
        THEN [events |-> <<>>, err |-> Wrap("failed to get event keys: ", IOError)]
        ELSE IF Len(keys) = 0 THEN [events |-> <<>>, err |-> NoError]
        ELSE IF io = "exec"
        THEN [events |-> <<>>, err |-> Wrap("failed to get events: ", IOError)]
        ELSE IF \E i \in 1 .. Len(keys) : ~RedisExists(keys[i])
        THEN [events |-> <<>>, err |-> Wrap("failed to get event data: ", <<"redis: nil">>)]
        ELSE [events |-> RedisDecode(keys), err |-> NoError]

\* GetEvents: [events, err]
RedisGetEvents(eventName, limit, io) ==
    LET lim == IF limit <= 0 THEN RedisDefaultConfig.MaxEventsPerType ELSE limit
        keys == LRange(redisList[eventName], -lim, -1)
    IN  IF io = "lrange"
        THEN [events |-> <<>>, err |-> Wrap("failed to get event keys: ", IOError)]
        ELSE IF Len(keys) = 0 THEN [events |-> <<>>, err |-> NoError]
        ELSE IF io = "exec"
        THEN [events |-> <<>>, err |-> Wrap("failed to get events: ", IOError)]
        ELSE [events |-> RedisDecode(keys), err |-> NoError]

\* the error of the DEL pipeline dropped
RedisClearEventsErrExecIgnored(eventName, io) ==
    IF io = "lrange" THEN Wrap("failed to get event keys: ", IOError) ELSE NoError

RedisClearEventsErr(eventName, io) ==
    IF io = "lrange" THEN Wrap("failed to get event keys: ", IOError)
    ELSE IF Len(redisList[eventName]) = 0 THEN NoError
    ELSE IF io = "exec" THEN Wrap("failed to clear events: ", IOError)
    ELSE NoError

\* the keyspace after ClearEvents: DEL of every key of the timeline
RedisClearEventsKV(eventName, io) ==
    LET keys == LRange(redisList[eventName], 0, -1)
    IN  IF io = "ok" THEN {e \in redisKV : e.key \notin Range(keys)} ELSE redisKV

\* the timelines after ClearEvents: DEL of the timeline itself
RedisClearEventsList(eventName, io) ==
    IF io = "ok" THEN [redisList EXCEPT ![eventName] = <<>>] ELSE redisList

\* ClearEvents: DEL every key of the timeline, then the timeline itself
RedisClearEvents(eventName, io) ==
    /\ redisKV' = RedisClearEventsKV(eventName, io)
    /\ redisList' = RedisClearEventsList(eventName, io)
    /\ UNCHANGED <<pgRows, pgNextId>>

\* key expiry: Redis drops every key whose time-to-live has elapsed
RedisExpire(t) == {e \in redisKV : e.exp > t}

\* ------------------------------------------------------- PostgreSQL store
PgRowsOf(eventName) == {r \in pgRows : r.event_name = eventName}

\* ORDER BY created_at DESC: every order of the rows the clause allows; rows with
\* equal created_at come in any order
RECURSIVE PgOrderByCreatedAtDesc(_)
PgOrderByCreatedAtDesc(rows) ==
    IF rows = {} THEN {<<>>}
    ELSE UNION {{<<r>> \o rest : rest \in PgOrderByCreatedAtDesc(rows \ {r})} :
                r \in {x \in rows : \A y \in rows : x.created_at >= y.created_at}}

\* INSERT INTO t (event_name, event_data, created_at) VALUES ($1, $2, $3)
PgInsert(ev) ==
    pgRows \cup {[id |-> pgNextId, event_name |-> ev.Name,
                  event_data |-> JsonMarshal(ev, now), created_at |-> now]}

\* trimEvents: DELETE ... WHERE id IN (SELECT id ... ORDER BY created_at DESC OFFSET max),
\* with the subquery's rows in the order ord
PgTrim(rows, ord) ==
    rows \ {ord[i] : i \in (PgDefaultConfig.MaxEventsPerType + 1) .. Len(ord)}

PgStoreIO == {"ok", "insert", "trim"}

PgStoreEventErr(ev, io) ==
    IF MarshalError(ev.Payload) # NoError
    THEN Wrap("failed to marshal event: ", MarshalError(ev.Payload))
    ELSE IF io = "insert" THEN Wrap("failed to store event: ", IOError)
    ELSE IF io = "trim" /\ PgDefaultConfig.MaxEventsPerType > 0
    THEN Wrap("failed to trim events: ", Wrap("failed to trim events: ", IOError))
    ELSE NoError

\* whether StoreEvent gets as far as a successful INSERT
PgWrites(ev, io) == MarshalError(ev.Payload) = NoError /\ io # "insert"

\* the trim's subquery without its WHERE clause: the rows of every name counted
PgStoreEventRowsTrimTable(ev, io) ==
    LET inserted == PgInsert(ev)
    IN  IF ~PgWrites(ev, io) THEN {pgRows}
        ELSE IF io = "trim" \/ ~(PgDefaultConfig.MaxEventsPerType > 0) THEN {inserted}
        ELSE {PgTrim(inserted, ord) : ord \in PgOrderByCreatedAtDesc(inserted)}

\* the tables StoreEvent can leave: the insert, then the trim of that name's rows
PgStoreEventRows(ev, io) ==
    LET inserted == PgInsert(ev)
    IN  IF ~PgWrites(ev, io) THEN {pgRows}
        ELSE IF io = "trim" \/ ~(PgDefaultConfig.MaxEventsPerType > 0) THEN {inserted}
        ELSE {PgTrim(inserted, ord) :
                ord \in PgOrderByCreatedAtDesc({r \in inserted : r.event_name = ev.Name})}

\* StoreEvent's effect on the table: the insert, then the trim of that name's rows
PgStoreEvent(ev, io) ==
    /\ pgRows' \in PgStoreEventRows(ev, io)
    /\ pgNextId' = IF PgWrites(ev, io) THEN pgNextId + 1 ELSE pgNextId
    /\ UNCHANGED <<redisKV, redisList>>

PgReadIO == {"ok", "query", "rows"}

\* ORDER BY created_at ASC in the place of DESC
PgGetEventsAscending(eventName, limit, io, ord) ==
    LET lim == IF limit <= 0 THEN PgDefaultConfig.MaxEventsPerType ELSE limit
        asc == [i \in 1 .. Len(ord) |-> ord[Len(ord) + 1 - i]]
        got == SubSeq(asc, 1, Min(lim, Len(asc)))
    IN  IF io = "query"
        THEN [events |-> <<>>, err |-> Wrap("failed to query events: ", IOError)]
        ELSE IF io = "rows"
        THEN [events |-> <<>>, err |-> Wrap("error iterating events: ", IOError)]
        ELSE [events |-> [i \in 1 .. Len(got) |-> JsonUnmarshal(got[i].event_data)],
              err |-> NoError]

\* GetEvents: [events, err], the query's rows coming in the order ord
PgGetEvents(eventName, limit, io, ord) ==
    LET lim == IF limit <= 0 THEN PgDefaultConfig.MaxEventsPerType ELSE limit
        got == SubSeq(ord, 1, Min(lim, Len(ord)))
    IN  IF io = "query"
        THEN [events |-> <<>>, err |-> Wrap("failed to query events: ", IOError)]
        ELSE IF io = "rows"
        THEN [events |-> <<>>, err |-> Wrap("error iterating events: ", IOError)]
        ELSE [events |-> [i \in 1 .. Len(got) |-> JsonUnmarshal(got[i].event_data)],
              err |-> NoError]

\* every result GetEvents can return when the database answers
PgGetEventsResults(eventName, limit) ==
    {PgGetEvents(eventName, limit, "ok", ord) : ord \in PgOrderByCreatedAtDesc(PgRowsOf(eventName))}

PgClearIO == {"ok", "exec"}

PgClearEventsErr(eventName, io) ==
    IF io = "exec" THEN Wrap("failed to clear events: ", IOError) ELSE NoError

\* DELETE FROM t, the WHERE clause left out
PgClearEventsAllNames(eventName, io) ==
    /\ pgRows' = IF io = "ok" THEN {} ELSE pgRows
    /\ UNCHANGED <<pgNextId, redisKV, redisList>>

\* ClearEvents: DELETE FROM t WHERE event_name = $1
PgClearEvents(eventName, io) ==
    /\ pgRows' = IF io = "ok" THEN pgRows \ PgRowsOf(eventName) ELSE pgRows
    /\ UNCHANGED <<pgNextId, redisKV, redisList>>

\* ------------------------------------------------ direct calls on a store
\* a client that calls one store directly: each call leaves what it returned in
\* `out`, which the client takes before it makes its next call
NoCall == [op |-> "none", name |-> "", events |-> <<>>, err |-> NoError]

Returned(op, name, events, err) == [op |-> op, name |-> name, events |-> events, err |-> err]

StoreEventRedis(ev, io) ==
    /\ storeKind = "redis"
    /\ out = NoCall
    /\ storeCalls < MaxStoreCalls
    /\ RedisStoreEvent(ev, io)
    /\ storeCalls' = storeCalls + (IF RedisWrites(ev, io) THEN 1 ELSE 0)
    /\ out' = Returned("StoreEvent", ev.Name, <<>>, RedisStoreEventErr(ev, io))
    /\ UNCHANGED <<now, storeKind, config, inflight, singletonVars, medVars>>

StoreEventPg(ev, io) ==
    /\ storeKind = "postgres"
    /\ out = NoCall
    /\ storeCalls < MaxStoreCalls
    /\ PgStoreEvent(ev, io)
    /\ storeCalls' = storeCalls + (IF PgWrites(ev, io) THEN 1 ELSE 0)
    /\ out' = Returned("StoreEvent", ev.Name, <<>>, PgStoreEventErr(ev, io))
    /\ UNCHANGED <<now, storeKind, config, inflight, singletonVars, medVars>>

GetEventsRedis(eventName, limit, io) ==
    /\ storeKind = "redis"
    /\ out = NoCall
    /\ LET r == RedisGetEvents(eventName, limit, io)
       IN  out' = Returned("GetEvents", eventName, r.events, r.err)
    /\ UNCHANGED <<now, storeKind, config, inflight, singletonVars, storeCalls, storeVars, medVars>>

GetEventsPg(eventName, limit, io) ==
    /\ storeKind = "postgres"
    /\ out = NoCall
    /\ \E ord \in PgOrderByCreatedAtDesc(PgRowsOf(eventName)) :
         LET r == PgGetEvents(eventName, limit, io, ord)
         IN  out' = Returned("GetEvents", eventName, r.events, r.err)
    /\ UNCHANGED <<now, storeKind, config, inflight, singletonVars, storeCalls, storeVars, medVars>>

ClearEventsRedis(eventName, io) ==
    /\ storeKind = "redis"
    /\ out = NoCall
    /\ RedisClearEvents(eventName, io)
    /\ out' = Returned("ClearEvents", eventName, <<>>, RedisClearEventsErr(eventName, io))
    /\ UNCHANGED <<now, storeKind, config, inflight, singletonVars, storeCalls, medVars>>

ClearEventsPg(eventName, io) ==
    /\ storeKind = "postgres"
    /\ out = NoCall
    /\ PgClearEvents(eventName, io)
    /\ out' = Returned("ClearEvents", eventName, <<>>, PgClearEventsErr(eventName, io))
    /\ UNCHANGED <<now, storeKind, config, inflight, singletonVars, storeCalls, medVars>>

\* a client that makes every call on a Redis store and on a PostgreSQL store, with
\* the same arguments and at the same time, both backends answering; `out` holds
\* the two results, the Redis store's first
StoreEventBoth(ev) ==
    /\ storeKind = "both"
    /\ out = NoCall
    /\ storeCalls < MaxStoreCalls
    /\ redisKV' = RedisStoreEventKV(ev, "ok")
    /\ redisList' = RedisStoreEventList(ev, "ok")
    /\ pgRows' \in PgStoreEventRows(ev, "ok")
    /\ pgNextId' = IF PgWrites(ev, "ok") THEN pgNextId + 1 ELSE pgNextId
    /\ storeCalls' = storeCalls + (IF RedisWrites(ev, "ok") THEN 1 ELSE 0)
    /\ out' = Returned("StoreEvent", ev.Name, <<>>,
                       <<RedisStoreEventErr(ev, "ok"), PgStoreEventErr(ev, "ok")>>)
    /\ UNCHANGED <<now, storeKind, config, inflight, singletonVars, medVars>>

GetEventsBoth(eventName, limit) ==
    /\ storeKind = "both"
    /\ out = NoCall
    /\ \E ord \in PgOrderByCreatedAtDesc(PgRowsOf(eventName)) :
         LET r == RedisGetEvents(eventName, limit, "ok")
             p == PgGetEvents(eventName, limit, "ok", ord)
         IN  out' = Returned("GetEvents", eventName, <<r.events, p.events>>, <<r.err, p.err>>)
    /\ UNCHANGED <<now, storeKind, config, inflight, singletonVars, storeCalls, storeVars, medVars>>

ClearEventsBoth(eventName) ==
    /\ storeKind = "both"
    /\ out = NoCall
    /\ redisKV' = RedisClearEventsKV(eventName, "ok")
    /\ redisList' = RedisClearEventsList(eventName, "ok")
    /\ pgRows' = pgRows \ PgRowsOf(eventName)
    /\ out' = Returned("ClearEvents", eventName, <<>>,
                       <<RedisClearEventsErr(eventName, "ok"), PgClearEventsErr(eventName, "ok")>>)
    /\ UNCHANGED <<now, storeKind, config, inflight, singletonVars, storeCalls, pgNextId, medVars>>

\* the client takes the result of its call
TakeResult ==
    /\ out # NoCall
    /\ out' = NoCall
    /\ UNCHANGED <<now, storeKind, config, inflight, singletonVars, storeCalls, storeVars, medVars>>

\* time passes; Redis expires the keys whose TTL has elapsed
Tick ==
    /\ out = NoCall
    /\ now < MaxClock
    /\ now' = now + 1
    /\ redisKV' = RedisExpire(now + 1)
    /\ UNCHANGED <<storeCalls, redisList, pgRows, pgNextId, clientVars, singletonVars, medVars>>

\* ---------------------------------------------------------------- Mediator
Threads == {"t1", "t2"}

\* a third goroutine, in the programs that have one
Third == "t3"

\* the call a handler of t1's Publish makes on the Mediator: it runs on t1's
\* goroutine, inside the handler, which goes on when the call has returned
Nested == "t1.h"

\* everything that can be inside a call of the Mediator
Activations == Threads \cup {Third, Nested}

\* the handlers a program registers; a handler returns nil or its own error
HandlerIds == {"h1", "h2"}

MaxHandlers == 2

MaxPublishes == 1

MaxSeqPublishes == 2

NoArgs == [op |-> "none", name |-> "", payload |-> PInt, handler |-> "", store |-> "nil", limit |-> 0]

Args(op, name, payload, handler, store, limit) ==
    [op |-> op, name |-> name, payload |-> payload, handler |-> handler, store |-> store, limit |-> limit]

NoResult == [events |-> <<>>, err |-> NoError]

Result(events, err) == [events |-> events, err |-> err]

\* fmt.Errorf("no handlers for event: %s", event.Name)
NoHandlersError(name) == <<"no handlers for event: ", name>>

\* the error handler h returns when it fails
HandlerError(h) == <<"error of ", h>>

\* fmt.Errorf("no event store configured")
NoStoreError == <<"no event store configured">>

\* %v of a []error: the messages one after the other
RECURSIVE Flatten(_)
Flatten(es) == IF es = <<>> THEN <<>> ELSE Head(es) \o Flatten(Tail(es))

\* fmt.Errorf("errors in event handlers: %v", errs)
AggregateError(es) == <<"errors in event handlers: ">> \o Flatten(es)

\* m.subscribers[name]: the handlers of a name, nil for a name that is not a key
Lookup(name) == IF name \in DOMAIN subscribers THEN subscribers[name] ELSE <<>>

\* the lookup skipped when a store is attached
ExistsOrStored(name) == name \in DOMAIN subscribers \/ eventStore # "nil"

\* handlers, exists := m.subscribers[name]
Exists(name) == name \in DOMAIN subscribers

\* the name made a key of the registry, the handler dropped
AppendHandlerKeyOnly(name, h) ==
    [n \in DOMAIN subscribers \cup {name} |-> IF n = name THEN Lookup(name) ELSE subscribers[n]]

\* the new handler put at the head of the list
AppendHandlerFirst(name, h) ==
    [n \in DOMAIN subscribers \cup {name} |-> IF n = name THEN <<h>> \o Lookup(name) ELSE subscribers[n]]

\* a handler already in the list not added again
AppendHandlerOnce(name, h) ==
    [n \in DOMAIN subscribers \cup {name} |->
        IF n = name
        THEN IF h \in Range(Lookup(name)) THEN Lookup(name) ELSE Append(Lookup(name), h)
        ELSE subscribers[n]]

\* m.subscribers[eventName] = append(m.subscribers[eventName], handler)
AppendHandler(name, h) ==
    [n \in DOMAIN subscribers \cup {name} |-> IF n = name THEN Append(Lookup(name), h) ELSE subscribers[n]]

\* sync.RWMutex ----------------------------------------------------------
NoReaders == \A u \in Activations : readers[u] = 0

\* mu.RLock(): taken at once unless a writer holds or awaits the lock; then the
\* reader sleeps until that writer unlocks
RLock(t) ==
    IF wHolder = "none"
    THEN /\ readers' = [readers EXCEPT ![t] = @ + 1]
         /\ pc' = [pc EXCEPT ![t] = "running"]
    ELSE /\ readers' = readers
         /\ pc' = [pc EXCEPT ![t] = "rwait"]

\* mu.RUnlock() on return
RUnlock(t) ==
    /\ readers' = [readers EXCEPT ![t] = @ - 1]
    /\ pc' = [pc EXCEPT ![t] = "returned"]

\* mu.Lock(): the first writer announces itself and waits for the readers to leave;
\* a later writer queues behind it
Lock(t) ==
    IF wHolder = "none"
    THEN /\ wHolder' = t
         /\ pc' = [pc EXCEPT ![t] = "wpending"]
    ELSE /\ wHolder' = wHolder
         /\ pc' = [pc EXCEPT ![t] = "wqueue"]

\* a queued writer gets its turn
LockGrant(t) ==
    /\ pc[t] = "wqueue"
    /\ wHolder = "none"
    /\ wHolder' = t
    /\ pc' = [pc EXCEPT ![t] = "wpending"]
    /\ UNCHANGED <<now, storeCalls, storeVars, clientVars, singletonVars, subscribers, eventStore, readers,
                   call, handlers, idx, errs, trace, ret>>

\* the writer let in while readers hold the lock
LockedAmongReaders(t) == pc[t] = "wpending" /\ wHolder = t

\* the writer has the lock once every reader has left
Locked(t) == pc[t] = "wpending" /\ wHolder = t /\ NoReaders

\* mu.Unlock(): the readers that slept on this writer all take the lock
Unlock(t) ==
    /\ wHolder' = "none"
    /\ readers' = [u \in Activations |-> IF pc[u] = "rwait" THEN readers[u] + 1 ELSE readers[u]]
    /\ pc' = [u \in Activations |-> IF u = t THEN "idle"
                                ELSE IF pc[u] = "rwait" THEN "running" ELSE pc[u]]

\* New, GetMediator --------------------------------------------------------
MaxInstanceCalls == 4

\* the calls of New and GetMediator made so far
InstanceCalls == Len(gret["t1"]) + Len(gret["t2"]) + Cardinality({t \in Threads : gpc[t] # "idle"})

\* what a read of globalMediator can observe: a goroutine that has been through
\* mediatorOnce.Do reads after the write; any other read races with the write and
\* observes the write or the initial nil
Observable(t) == IF t \in synced THEN {globalMediator} ELSE {globalMediator, 0}

\* New(): mediatorOnce.Do(...)
NewCall(t) ==
    /\ gpc[t] = "idle"
    /\ InstanceCalls < MaxInstanceCalls
    /\ gpc' = [gpc EXCEPT ![t] = "do"]
    /\ UNCHANGED <<now, storeCalls, storeVars, clientVars, medVars,
                   globalMediator, mediatorOnce, built, synced, gret>>

\* mediatorOnce.Do: the first caller runs the function, a caller that comes while
\* it runs waits, a caller that comes after it has run goes on
OnceDo(t) ==
    /\ gpc[t] = "do"
    /\ mediatorOnce # "running"
    /\ IF mediatorOnce = "fresh"
       THEN /\ mediatorOnce' = "running"
            /\ gpc' = [gpc EXCEPT ![t] = "init"]
            /\ synced' = synced
       ELSE /\ mediatorOnce' = mediatorOnce
            /\ gpc' = [gpc EXCEPT ![t] = "newret"]
            /\ synced' = synced \cup {t}
    /\ UNCHANGED <<now, storeCalls, storeVars, clientVars, medVars, globalMediator, built, gret>>

\* globalMediator = &Mediator{subscribers: make(...)}, and the Once is done
OnceInit(t) ==
    /\ gpc[t] = "init"
    /\ built' = built + 1
    /\ globalMediator' = built + 1
    /\ mediatorOnce' = "done"
    /\ synced' = synced \cup {t}
    /\ gpc' = [gpc EXCEPT ![t] = "newret"]
    /\ UNCHANGED <<now, storeCalls, storeVars, clientVars, medVars, gret>>

\* return globalMediator, at the end of New
NewReturn(t) ==
    /\ gpc[t] = "newret"
    /\ \E v \in Observable(t) : gret' = [gret EXCEPT ![t] = Append(@, v)]
    /\ gpc' = [gpc EXCEPT ![t] = "idle"]
    /\ UNCHANGED <<now, storeCalls, storeVars, clientVars, medVars,
                   globalMediator, mediatorOnce, built, synced>>

\* GetMediator(): if globalMediator == nil { return New() }
GetMediatorCall(t) ==
    /\ gpc[t] = "idle"
    /\ InstanceCalls < MaxInstanceCalls
    /\ \E v \in Observable(t) : gpc' = [gpc EXCEPT ![t] = IF v = 0 THEN "do" ELSE "load"]
    /\ UNCHANGED <<now, storeCalls, storeVars, clientVars, medVars,
                   globalMediator, mediatorOnce, built, synced, gret>>

\* return globalMediator, at the end of GetMediator: the variable is read again
GetMediatorReturn(t) ==
    /\ gpc[t] = "load"
    /\ \E v \in Observable(t) : gret' = [gret EXCEPT ![t] = Append(@, v)]
    /\ gpc' = [gpc EXCEPT ![t] = "idle"]
    /\ UNCHANGED <<now, storeCalls, storeVars, clientVars, medVars,
                   globalMediator, mediatorOnce, built, synced>>

\* Subscribe ---------------------------------------------------------------
\* the Subscribe calls under way, and the handlers registered so far
Subscribing ==
    {u \in Activations : pc[u] \in {"wqueue", "wpending"} /\ call[u].op = "Subscribe"}

RECURSIVE SumLen(_)
SumLen(S) ==
    IF S = {} THEN 0
    ELSE LET n == CHOOSE x \in S : TRUE IN Len(subscribers[n]) + SumLen(S \ {n})

Registered == SumLen(DOMAIN subscribers)

SubscribeCall(t, name, h) ==
    /\ pc[t] = "idle"
    /\ Registered + Cardinality(Subscribing) < MaxHandlers
    /\ call' = [call EXCEPT ![t] = Args("Subscribe", name, PInt, h, "nil", 0)]
    /\ Lock(t)
    /\ UNCHANGED <<now, storeCalls, storeVars, clientVars, singletonVars, subscribers, eventStore, readers,
                   handlers, idx, errs, trace, ret>>

\* the registry written while readers hold the lock
SubscribeRunAmongReaders(t) ==
    /\ pc[t] = "wpending"
    /\ wHolder = t
    /\ call[t].op = "Subscribe"
    /\ subscribers' = AppendHandler(call[t].name, call[t].handler)
    /\ Unlock(t)
    /\ call' = [call EXCEPT ![t] = NoArgs]
    /\ UNCHANGED <<now, storeCalls, storeVars, clientVars, singletonVars, eventStore, handlers, idx, errs, trace, ret>>

SubscribeRun(t) ==
    /\ Locked(t)
    /\ call[t].op = "Subscribe"
    /\ subscribers' = AppendHandler(call[t].name, call[t].handler)
    /\ Unlock(t)
    /\ call' = [call EXCEPT ![t] = NoArgs]
    /\ UNCHANGED <<now, storeCalls, storeVars, clientVars, singletonVars, eventStore, handlers, idx, errs, trace, ret>>

\* SetEventStore -----------------------------------------------------------
SetEventStoreCall(t, store) ==
    /\ pc[t] = "idle"
    /\ call' = [call EXCEPT ![t] = Args("SetEventStore", "", PInt, "", store, 0)]
    /\ Lock(t)
    /\ UNCHANGED <<now, storeCalls, storeVars, clientVars, singletonVars, subscribers, eventStore, readers,
                   handlers, idx, errs, trace, ret>>

\* the store kept once one is attached
SetEventStoreRunKeepFirst(t) ==
    /\ Locked(t)
    /\ call[t].op = "SetEventStore"
    /\ eventStore' = IF eventStore = "nil" THEN call[t].store ELSE eventStore
    /\ Unlock(t)
    /\ call' = [call EXCEPT ![t] = NoArgs]
    /\ UNCHANGED <<now, storeCalls, storeVars, clientVars, singletonVars, subscribers, handlers, idx, errs, trace, ret>>

SetEventStoreRun(t) ==
    /\ Locked(t)
    /\ call[t].op = "SetEventStore"
    /\ eventStore' = call[t].store
    /\ Unlock(t)
    /\ call' = [call EXCEPT ![t] = NoArgs]
    /\ UNCHANGED <<now, storeCalls, storeVars, clientVars, singletonVars, subscribers, handlers, idx, errs, trace, ret>>

\* Publish -----------------------------------------------------------------
Publishing == {u \in Activations : call[u].op = "Publish" /\ pc[u] \in {"rwait", "running", "handlers"}}

Invoked(kind, who, err) == [kind |-> kind, who |-> who, err |-> err]

\* fewer than max events have been written to a store or are on their way
CanPublish(max) == storeCalls + Cardinality(Publishing) < max

PublishCall(t, ev) ==
    /\ pc[t] = "idle"
    /\ call' = [call EXCEPT ![t] = Args("Publish", ev.Name, ev.Payload, "", "nil", 0)]
    /\ RLock(t)
    /\ UNCHANGED <<now, storeCalls, storeVars, clientVars, singletonVars, subscribers, eventStore, wHolder,
                   handlers, idx, errs, trace, ret>>

\* the early return left out: a name with no key goes on with no handlers
PublishLookupNoReturn(t) ==
    /\ pc[t] = "running"
    /\ call[t].op = "Publish"
    /\ handlers' = [handlers EXCEPT ![t] = Lookup(call[t].name)]
    /\ idx' = [idx EXCEPT ![t] = 1]
    /\ pc' = [pc EXCEPT ![t] = "handlers"]
    /\ UNCHANGED <<ret, readers>>
    /\ UNCHANGED <<now, storeCalls, storeVars, clientVars, singletonVars, subscribers, eventStore, wHolder,
                   call, errs, trace>>

\* handlers, exists := m.subscribers[event.Name]; if !exists { return error }
PublishLookup(t) ==
    /\ pc[t] = "running"
    /\ call[t].op = "Publish"
    /\ IF ~Exists(call[t].name)
       THEN /\ ret' = [ret EXCEPT ![t] = Result(<<>>, NoHandlersError(call[t].name))]
            /\ RUnlock(t)
            /\ UNCHANGED <<handlers, idx>>
       ELSE /\ handlers' = [handlers EXCEPT ![t] = Lookup(call[t].name)]
            /\ idx' = [idx EXCEPT ![t] = 1]
            /\ pc' = [pc EXCEPT ![t] = "handlers"]
            /\ UNCHANGED <<ret, readers>>
    /\ UNCHANGED <<now, storeCalls, storeVars, clientVars, singletonVars, subscribers, eventStore, wHolder,
                   call, errs, trace>>

\* one turn of `for _, handler := range handlers`: the handler runs and returns
PublishHandler(t, ok) ==
    /\ pc[t] = "handlers"
    /\ idx[t] <= Len(handlers[t])
    /\ LET h == handlers[t][idx[t]]
           err == IF ok THEN NoError ELSE HandlerError(h)
       IN  /\ trace' = [trace EXCEPT ![t] = Append(@, Invoked("handler", h, err))]
           /\ errs' = [errs EXCEPT ![t] = IF err # NoError THEN Append(@, err) ELSE @]
    /\ idx' = [idx EXCEPT ![t] = @ + 1]
    /\ UNCHANGED <<now, storeCalls, storeVars, clientVars, singletonVars, subscribers, eventStore, readers,
                   wHolder, pc, call, handlers, ret>>

\* the loop left at the first handler error
LoopDoneAtFirstError(t) == pc[t] = "handlers" /\ (idx[t] > Len(handlers[t]) \/ errs[t] # <<>>)

\* the loop left before it has gone through the handlers
LoopDoneEarly(t) == pc[t] = "handlers"

\* the loop over the handlers has ended
LoopDone(t) == pc[t] = "handlers" /\ idx[t] > Len(handlers[t])

\* only the first error reported
PublishResultFirstOnly(es) == IF Len(es) > 0 THEN AggregateError(<<Head(es)>>) ELSE NoError

\* if len(errs) > 0 { return fmt.Errorf(...) }; return nil
PublishResult(es) == IF Len(es) > 0 THEN AggregateError(es) ELSE NoError

\* the store's error put before the handlers' errors
WithStoreErrorFirst(es, err) ==
    IF err # NoError THEN <<Wrap("failed to store event: ", err)>> \o es ELSE es

\* errs = append(errs, fmt.Errorf("failed to store event: %w", err))
WithStoreError(es, err) ==
    IF err # NoError THEN Append(es, Wrap("failed to store event: ", err)) ELSE es

\* the rest of Publish: the store call when a store is attached, the result, RUnlock
PublishStore(t) ==
    /\ LoopDone(t)
    /\ LET ev == [Name |-> call[t].name, Payload |-> call[t].payload]
       IN  \/ /\ eventStore = "nil"
              /\ ret' = [ret EXCEPT ![t] = Result(<<>>, PublishResult(errs[t]))]
              /\ UNCHANGED <<storeCalls, storeVars, trace>>
           \/ /\ eventStore = "redis"
              /\ \E io \in RedisStoreIO :
                   /\ RedisStoreEvent(ev, io)
                   /\ storeCalls' = storeCalls + (IF RedisWrites(ev, io) THEN 1 ELSE 0)
                   /\ trace' = [trace EXCEPT ![t] =
                                  Append(@, Invoked("store", "redis", RedisStoreEventErr(ev, io)))]
                   /\ ret' = [ret EXCEPT ![t] = Result(<<>>,
                                  PublishResult(WithStoreError(errs[t], RedisStoreEventErr(ev, io))))]
           \/ /\ eventStore = "postgres"
              /\ \E io \in PgStoreIO :
                   /\ PgStoreEvent(ev, io)
                   /\ storeCalls' = storeCalls + (IF PgWrites(ev, io) THEN 1 ELSE 0)
                   /\ trace' = [trace EXCEPT ![t] =
                                  Append(@, Invoked("store", "postgres", PgStoreEventErr(ev, io)))]
                   /\ ret' = [ret EXCEPT ![t] = Result(<<>>,
                                  PublishResult(WithStoreError(errs[t], PgStoreEventErr(ev, io))))]
    /\ RUnlock(t)
    /\ UNCHANGED <<now, clientVars, singletonVars, subscribers, eventStore, wHolder, call, handlers, idx, errs>>

\* GetEvents, ClearEvents --------------------------------------------------
MedLimits == {0, 1}

GetEventsCall(t, eventName, limit) ==
    /\ pc[t] = "idle"
    /\ call' = [call EXCEPT ![t] = Args("GetEvents", eventName, PInt, "", "nil", limit)]
    /\ RLock(t)
    /\ UNCHANGED <<now, storeCalls, storeVars, clientVars, singletonVars, subscribers, eventStore, wHolder,
                   handlers, idx, errs, trace, ret>>

\* the store's absence answered like an empty store
GetEventsRunNoNilCheck(t) ==
    /\ pc[t] = "running"
    /\ call[t].op = "GetEvents"
    /\ \/ /\ eventStore = "nil"
          /\ ret' = [ret EXCEPT ![t] = Result(<<>>, NoError)]
       \/ /\ eventStore = "redis"
          /\ \E io \in RedisReadIO :
               ret' = [ret EXCEPT ![t] = RedisGetEvents(call[t].name, call[t].limit, io)]
       \/ /\ eventStore = "postgres"
          /\ \E io \in PgReadIO, ord \in PgOrderByCreatedAtDesc(PgRowsOf(call[t].name)) :
               ret' = [ret EXCEPT ![t] = PgGetEvents(call[t].name, call[t].limit, io, ord)]
    /\ RUnlock(t)
    /\ UNCHANGED <<now, storeCalls, storeVars, clientVars, singletonVars, subscribers, eventStore, wHolder,
                   call, handlers, idx, errs, trace>>

GetEventsRun(t) ==
    /\ pc[t] = "running"
    /\ call[t].op = "GetEvents"
    /\ \/ /\ eventStore = "nil"
          /\ ret' = [ret EXCEPT ![t] = Result(<<>>, NoStoreError)]
       \/ /\ eventStore = "redis"
          /\ \E io \in RedisReadIO :
               ret' = [ret EXCEPT ![t] = RedisGetEvents(call[t].name, call[t].limit, io)]
       \/ /\ eventStore = "postgres"
          /\ \E io \in PgReadIO, ord \in PgOrderByCreatedAtDesc(PgRowsOf(call[t].name)) :
               ret' = [ret EXCEPT ![t] = PgGetEvents(call[t].name, call[t].limit, io, ord)]
    /\ RUnlock(t)
    /\ UNCHANGED <<now, storeCalls, storeVars, clientVars, singletonVars, subscribers, eventStore, wHolder,
                   call, handlers, idx, errs, trace>>

ClearEventsCall(t, eventName) ==
    /\ pc[t] = "idle"
    /\ call' = [call EXCEPT ![t] = Args("ClearEvents", eventName, PInt, "", "nil", 0)]
    /\ RLock(t)
    /\ UNCHANGED <<now, storeCalls, storeVars, clientVars, singletonVars, subscribers, eventStore, wHolder,
                   handlers, idx, errs, trace, ret>>

ClearEventsRun(t) ==
    /\ pc[t] = "running"
    /\ call[t].op = "ClearEvents"
    /\ \/ /\ eventStore = "nil"
          /\ ret' = [ret EXCEPT ![t] = Result(<<>>, NoStoreError)]
          /\ UNCHANGED storeVars
       \/ /\ eventStore = "redis"
          /\ \E io \in RedisReadIO :
               /\ RedisClearEvents(call[t].name, io)
               /\ ret' = [ret EXCEPT ![t] = Result(<<>>, RedisClearEventsErr(call[t].name, io))]
       \/ /\ eventStore = "postgres"
          /\ \E io \in PgClearIO :
               /\ PgClearEvents(call[t].name, io)
               /\ ret' = [ret EXCEPT ![t] = Result(<<>>, PgClearEventsErr(call[t].name, io))]
    /\ RUnlock(t)
    /\ UNCHANGED <<now, storeCalls, clientVars, singletonVars, subscribers, eventStore, wHolder,
                   call, handlers, idx, errs, trace>>

\* calls made from inside a handler ------------------------------------------
\* thread t's Publish is inside a handler
InHandler(t) == pc[t] = "handlers" /\ call[t].op = "Publish" /\ idx[t] <= Len(handlers[t])

\* the handler calls m.Publish(ctx, ev): Publish's RLock on the goroutine that
\* holds the read lock already
HandlerPublishes(t, ev) == InHandler(t) /\ PublishCall(Nested, ev)

\* the handler calls m.Subscribe(name, h)
HandlerSubscribes(t, name, h) == InHandler(t) /\ SubscribeCall(Nested, name, h)

\* the handler calls m.SetEventStore(store)
HandlerSetsEventStore(t, store) == InHandler(t) /\ SetEventStoreCall(Nested, store)

\* the handler returns, the call it made (if any) having returned
HandlerReturns(t, ok) == pc[Nested] \in {"idle", "returned"} /\ PublishHandler(t, ok)

\* the caller takes what its call returned and is free to make its next call
Take(t) ==
    /\ pc[t] = "returned"
    /\ pc' = [pc EXCEPT ![t] = "idle"]
    /\ call' = [call EXCEPT ![t] = NoArgs]
    /\ handlers' = [handlers EXCEPT ![t] = <<>>]
    /\ idx' = [idx EXCEPT ![t] = 0]
    /\ errs' = [errs EXCEPT ![t] = <<>>]
    /\ trace' = [trace EXCEPT ![t] = <<>>]
    /\ ret' = [ret EXCEPT ![t] = NoResult]
    /\ UNCHANGED <<now, storeCalls, storeVars, clientVars, singletonVars, subscribers, eventStore, readers, wHolder>>

\* StoreEvent called by several goroutines on one store ------------------------
\* The store has no lock of its own and Publish calls it under the read lock, so
\* the two round trips of one StoreEvent interleave with those of another.
NoStoreCall == [stage |-> "none", name |-> "", timestamp |-> 0]

StoreStepIO == {"ok", "fails"}

\* Redis: timestamp := time.Now(); json.Marshal; SET key data EX ttl
GoStoreEventSet(t, ev) ==
    /\ storeKind = "redis"
    /\ inflight[t] = NoStoreCall
    /\ storeCalls < MaxStoreCalls
    /\ MarshalError(ev.Payload) = NoError
    /\ redisKV' = RedisSet(RedisKey(ev.Name, now), JsonMarshal(ev, now), RedisDefaultConfig.EventTTL)
    /\ inflight' = [inflight EXCEPT ![t] = [stage |-> "set", name |-> ev.Name, timestamp |-> now]]
    /\ storeCalls' = storeCalls + 1
    /\ UNCHANGED <<now, redisList, pgRows, pgNextId, storeKind, config, out, singletonVars, medVars>>

\* Redis: RPUSH timeline key, and the return
GoStoreEventRPush(t, io) ==
    /\ inflight[t].stage = "set"
    /\ redisList' = IF io = "ok"
                    THEN [redisList EXCEPT ![inflight[t].name] =
                             Append(@, RedisKey(inflight[t].name, inflight[t].timestamp))]
                    ELSE redisList
    /\ inflight' = [inflight EXCEPT ![t] = NoStoreCall]
    /\ UNCHANGED <<now, storeCalls, redisKV, pgRows, pgNextId, storeKind, config, out, singletonVars, medVars>>

\* PostgreSQL: timestamp := time.Now(); json.Marshal; INSERT
GoStoreEventInsert(t, ev) ==
    /\ storeKind = "postgres"
    /\ inflight[t] = NoStoreCall
    /\ storeCalls < MaxStoreCalls
    /\ MarshalError(ev.Payload) = NoError
    /\ pgRows' = PgInsert(ev)
    /\ pgNextId' = pgNextId + 1
    /\ inflight' = [inflight EXCEPT ![t] = [stage |-> "inserted", name |-> ev.Name, timestamp |-> now]]
    /\ storeCalls' = storeCalls + 1
    /\ UNCHANGED <<now, redisKV, redisList, storeKind, config, out, singletonVars, medVars>>

\* PostgreSQL: trimEvents, one DELETE statement over the rows committed so far,
\* and the return
GoStoreEventTrim(t, io) ==
    /\ inflight[t].stage = "inserted"
    /\ IF io = "ok" /\ PgDefaultConfig.MaxEventsPerType > 0
       THEN \E ord \in PgOrderByCreatedAtDesc(PgRowsOf(inflight[t].name)) :
                pgRows' = PgTrim(pgRows, ord)
       ELSE pgRows' = pgRows
    /\ inflight' = [inflight EXCEPT ![t] = NoStoreCall]
    /\ UNCHANGED <<now, storeCalls, redisKV, redisList, pgNextId, storeKind, config, out, singletonVars, medVars>>

\* ---------------------------------------------------------- specifications
\* New(): an empty registry and no store; both stores start empty
InitMediator ==
    /\ subscribers = [n \in {} |-> <<>>]
    /\ eventStore = "nil"
    /\ readers = [t \in Activations |-> 0]
    /\ wHolder = "none"
    /\ pc = [t \in Activations |-> "idle"]
    /\ call = [t \in Activations |-> NoArgs]
    /\ handlers = [t \in Activations |-> <<>>]
    /\ idx = [t \in Activations |-> 0]
    /\ errs = [t \in Activations |-> <<>>]
    /\ trace = [t \in Activations |-> <<>>]
    /\ ret = [t \in Activations |-> NoResult]

\* the process starts: no Mediator yet
ProcessStart ==
    /\ globalMediator = 0
    /\ mediatorOnce = "fresh"
    /\ built = 0
    /\ synced = {}
    /\ gpc = [t \in Threads |-> "idle"]
    /\ gret = [t \in Threads |-> <<>>]

\* New() has been called before the goroutines were started
Constructed ==
    /\ globalMediator = 1
    /\ mediatorOnce = "done"
    /\ built = 1
    /\ synced = Threads
    /\ gpc = [t \in Threads |-> "idle"]
    /\ gret = [t \in Threads |-> <<>>]

InitStores ==
    /\ Constructed
    /\ now = 0
    /\ storeCalls = 0
    /\ redisKV = {}
    /\ redisList = [n \in Names |-> <<>>]
    /\ pgRows = {}
    /\ pgNextId = 1
    /\ out = NoCall
    /\ inflight = [t \in Threads |-> NoStoreCall]

\* a program that uses the Mediator from two goroutines: both register handlers
\* and attach stores, the first one publishes and reads
Init == InitMediator /\ InitStores /\ storeKind = "none" /\ config = DefaultConfigs

Caller == "t1"

Published == [Name : Names, Payload : {PInt, PChan}]

StoreKinds == {"nil", "redis", "postgres"}

Next ==
    \/ \E t \in Threads, n \in Names, h \in HandlerIds : SubscribeCall(t, n, h)
    \/ \E t \in Threads : SubscribeRun(t)
    \/ \E t \in Threads, s \in StoreKinds : SetEventStoreCall(t, s)
    \/ \E t \in Threads : SetEventStoreRun(t)
    \/ \E t \in Threads : LockGrant(t)
    \/ \E ev \in Published : CanPublish(MaxPublishes) /\ PublishCall(Caller, ev)
    \/ \E t \in Threads : PublishLookup(t)
    \/ \E t \in Threads, ok \in BOOLEAN : PublishHandler(t, ok)
    \/ \E t \in Threads : PublishStore(t)
    \/ \E n \in Names : GetEventsCall(Caller, n, 1)
    \/ \E t \in Threads : GetEventsRun(t)
    \/ \E n \in Names : ClearEventsCall(Caller, n)
    \/ \E t \in Threads : ClearEventsRun(t)
    \/ \E t \in Threads : Take(t)

Spec == Init /\ [][Next]_vars

\* a program that makes its calls one after the other from one goroutine, while
\* time passes
NextSeq ==
    \/ \E n \in Names : SubscribeCall(Caller, n, "h1")
    \/ SubscribeRun(Caller)
    \/ \E s \in StoreKinds : SetEventStoreCall(Caller, s)
    \/ SetEventStoreRun(Caller)
    \/ \E ev \in Events : CanPublish(MaxSeqPublishes) /\ PublishCall(Caller, ev)
    \/ PublishLookup(Caller)
    \/ \E ok \in BOOLEAN : PublishHandler(Caller, ok)
    \/ PublishStore(Caller)
    \/ \E n \in Names, l \in MedLimits : GetEventsCall(Caller, n, l)
    \/ GetEventsRun(Caller)
    \/ \E n \in Names : ClearEventsCall(Caller, n)
    \/ ClearEventsRun(Caller)
    \/ Take(Caller)
    \/ Tick

SpecSeq == Init /\ [][NextSeq]_vars

\* a program that attaches, replaces and detaches the store between its calls,
\* from one goroutine
NextSwap ==
    \/ \E n \in Names : SubscribeCall(Caller, n, "h1")
    \/ SubscribeRun(Caller)
    \/ \E s \in StoreKinds : SetEventStoreCall(Caller, s)
    \/ SetEventStoreRun(Caller)
    \/ \E ev \in Published : CanPublish(MaxSeqPublishes) /\ PublishCall(Caller, ev)
    \/ PublishLookup(Caller)
    \/ \E ok \in BOOLEAN : PublishHandler(Caller, ok)
    \/ PublishStore(Caller)
    \/ \E n \in Names : GetEventsCall(Caller, n, 1)
    \/ GetEventsRun(Caller)
    \/ \E n \in Names : ClearEventsCall(Caller, n)
    \/ ClearEventsRun(Caller)
    \/ Take(Caller)

SpecSwap == Init /\ [][NextSwap]_vars

\* one goroutine that passes any string as an event name, the empty one included,
\* to a Mediator that has no store or the PostgreSQL store
AnyNames == Names \cup {""}

NextAnyName ==
    \/ \E n \in AnyNames : SubscribeCall(Caller, n, "h1")
    \/ SubscribeRun(Caller)
    \/ \E s \in {"nil", "postgres"} : SetEventStoreCall(Caller, s)
    \/ SetEventStoreRun(Caller)
    \/ \E n \in AnyNames : CanPublish(MaxSeqPublishes) /\ PublishCall(Caller, [Name |-> n, Payload |-> PInt])
    \/ PublishLookup(Caller)
    \/ \E ok \in BOOLEAN : PublishHandler(Caller, ok)
    \/ PublishStore(Caller)
    \/ Take(Caller)

SpecAnyName == Init /\ [][NextAnyName]_vars

\* two goroutines that make the first calls of New and GetMediator
InitSingleton ==
    /\ InitMediator
    /\ ProcessStart
    /\ now = 0
    /\ storeCalls = 0
    /\ redisKV = {}
    /\ redisList = [n \in Names |-> <<>>]
    /\ pgRows = {}
    /\ pgNextId = 1
    /\ out = NoCall
    /\ inflight = [t \in Threads |-> NoStoreCall]
    /\ storeKind = "none"
    /\ config = DefaultConfigs

NextSingleton ==
    \/ \E t \in Threads : NewCall(t)
    \/ \E t \in Threads : OnceDo(t)
    \/ \E t \in Threads : OnceInit(t)
    \/ \E t \in Threads : NewReturn(t)
    \/ \E t \in Threads : GetMediatorCall(t)
    \/ \E t \in Threads : GetMediatorReturn(t)

SpecSingleton == InitSingleton /\ [][NextSingleton]_vars

\* two goroutines that publish and one that registers handlers and attaches stores
Publishers == {Caller, Third}

Writer == "t2"

NextThree ==
    \/ \E n \in Names : SubscribeCall(Writer, n, "h1")
    \/ SubscribeRun(Writer)
    \/ \E s \in StoreKinds : SetEventStoreCall(Writer, s)
    \/ SetEventStoreRun(Writer)
    \/ \E t \in Publishers, ev \in Published : CanPublish(MaxSeqPublishes) /\ PublishCall(t, ev)
    \/ \E t \in Publishers : PublishLookup(t)
    \/ \E t \in Publishers, ok \in BOOLEAN : PublishHandler(t, ok)
    \/ \E t \in Publishers : PublishStore(t)
    \/ \E t \in Publishers : Take(t)

SpecThree == Init /\ [][NextThree]_vars

\* a goroutine whose handlers call the Mediator they run under, once in a Publish,
\* and a goroutine that registers handlers and attaches stores
NextNested ==
    \/ \E n \in Names : SubscribeCall(Writer, n, "h1")
    \/ \E a \in {Writer, Nested} : SubscribeRun(a)
    \/ \E s \in StoreKinds : SetEventStoreCall(Writer, s)
    \/ \E a \in {Writer, Nested} : SetEventStoreRun(a)
    \/ \E ev \in Published : CanPublish(MaxSeqPublishes) /\ PublishCall(Caller, ev)
    \/ \E ev \in Published : CanPublish(MaxSeqPublishes) /\ HandlerPublishes(Caller, ev)
    \/ \E n \in Names : HandlerSubscribes(Caller, n, "h2")
    \/ \E s \in StoreKinds : HandlerSetsEventStore(Caller, s)
    \/ \E a \in {Caller, Nested} : PublishLookup(a)
    \/ \E ok \in BOOLEAN : HandlerReturns(Caller, ok)
    \/ \E ok \in BOOLEAN : PublishHandler(Nested, ok)
    \/ \E a \in {Caller, Nested} : PublishStore(a)
    \/ Take(Caller)
    \/ pc[Caller] # "handlers" /\ Take(Nested)

\* what an activation does once it is inside a call: every step but the calls.
\* No queued writer gets a turn here: the writer ahead of it never unlocks, as
\* it waits for the read lock of the Publish whose handler made the other call
Proceed(a) ==
    \/ SubscribeRun(a)
    \/ SetEventStoreRun(a)
    \/ PublishLookup(a)
    \/ \E ok \in BOOLEAN : IF a = Caller THEN HandlerReturns(a, ok) ELSE PublishHandler(a, ok)
    \/ PublishStore(a)

\* every call goes on while it can: handlers return, the scheduler is fair
SpecNestedFair ==
    /\ Init
    /\ [][NextNested]_vars
    /\ \A a \in {Caller, Writer, Nested} : WF_vars(Proceed(a))

\* a client that calls one store directly, with events that can be marshalled and
\* events that cannot
InitStore ==
    /\ InitMediator
    /\ InitStores
    /\ storeKind \in {"redis", "postgres"}
    /\ config = DefaultConfigs

NextStore ==
    \/ \E ev \in Published, io \in RedisStoreIO : StoreEventRedis(ev, io)
    \/ \E ev \in Published, io \in PgStoreIO : StoreEventPg(ev, io)
    \/ \E n \in Names, l \in Limits, io \in RedisReadIO : GetEventsRedis(n, l, io)
    \/ \E n \in Names, l \in Limits, io \in PgReadIO : GetEventsPg(n, l, io)
    \/ \E n \in Names, io \in RedisReadIO : ClearEventsRedis(n, io)
    \/ \E n \in Names, io \in PgClearIO : ClearEventsPg(n, io)
    \/ TakeResult
    \/ Tick

SpecStore == InitStore /\ [][NextStore]_vars

\* the same client with time passing for ever: Redis goes on expiring keys
\* whether or not the client makes another call
SpecStoreFair == InitStore /\ [][NextStore]_vars /\ WF_vars(Tick)

\* a client whose calls fall within one reading of the clock, with every
\* kind of payload
NextTies ==
    \/ \E ev \in Events, io \in RedisStoreIO : StoreEventRedis(ev, io)
    \/ \E ev \in Events, io \in PgStoreIO : StoreEventPg(ev, io)
    \/ \E n \in Names, l \in Limits, io \in RedisReadIO : GetEventsRedis(n, l, io)
    \/ \E n \in Names, l \in Limits, io \in PgReadIO : GetEventsPg(n, l, io)
    \/ \E n \in Names, io \in RedisReadIO : ClearEventsRedis(n, io)
    \/ \E n \in Names, io \in PgClearIO : ClearEventsPg(n, io)
    \/ TakeResult

SpecTies == InitStore /\ [][NextTies]_vars

\* two goroutines that call StoreEvent on one store while time passes, and a
\* client that clears the PostgreSQL store
NextShared ==
    \/ \E t \in Threads, n \in Names : GoStoreEventSet(t, [Name |-> n, Payload |-> PInt])
    \/ \E t \in Threads, io \in StoreStepIO : GoStoreEventRPush(t, io)
    \/ \E t \in Threads, n \in Names : GoStoreEventInsert(t, [Name |-> n, Payload |-> PInt])
    \/ \E t \in Threads, io \in StoreStepIO : GoStoreEventTrim(t, io)
    \/ \E n \in Names : ClearEventsPg(n, "ok")
    \/ TakeResult
    \/ Tick

SpecShared == InitStore /\ [][NextShared]_vars

\* the same client, of a store constructed with DefaultConfig() or with a Config
\* of its own
InitConfigured ==
    /\ InitMediator
    /\ InitStores
    /\ \/ storeKind = "redis" /\ \E c \in RedisConfigs : config = [DefaultConfigs EXCEPT !.redis = c]
       \/ storeKind = "postgres" /\ \E c \in PgConfigs : config = [DefaultConfigs EXCEPT !.postgres = c]

SpecConfigured == InitConfigured /\ [][NextStore]_vars

\* a client that drives the two backends side by side
InitBoth == InitMediator /\ InitStores /\ storeKind = "both" /\ config = DefaultConfigs

NextBoth ==
    \/ \E ev \in Published : StoreEventBoth(ev)
    \/ \E n \in Names, l \in Limits : GetEventsBoth(n, l)
    \/ \E n \in Names : ClearEventsBoth(n)
    \/ TakeResult
    \/ Tick

SpecBoth == InitBoth /\ [][NextBoth]_vars

\* ------------------------------------------------- properties of Publish
\* the handler calls and the store calls a Publish has made, in the order made
HandlerCallsIn(tr) == SelectSeq(tr, LAMBDA c : c.kind = "handler")
StoreCallsIn(tr) == SelectSeq(tr, LAMBDA c : c.kind = "store")
WhoOf(calls) == [i \in 1 .. Len(calls) |-> calls[i].who]
ErrsOf(calls) == [i \in 1 .. Len(calls) |-> calls[i].err]
FailedIn(calls) == SelectSeq(calls, LAMBDA c : c.err # NoError)
IsPrefix(s, r) == Len(s) <= Len(r) /\ SubSeq(r, 1, Len(s)) = s

\* thread t has returned from a Publish
PublishReturned(t) == pc[t] = "returned" /\ call[t].op = "Publish"

\* C1: a Publish of a name that is not a key of the registry (no Subscribe for it
\* has ever completed) returns a non-nil error whose message contains the name,
\* with a store attached or without one.
C1_PublishUnsubscribedFails ==
    \A t \in Threads :
        (PublishReturned(t) /\ call[t].name \notin DOMAIN subscribers)
            => (ret[t].err # NoError /\ call[t].name \in Range(ret[t].err))

\* a Publish of an unsubscribed name has failed while a store is attached and
\* another name has a handler
C1_Witness ==
    \E t \in Threads :
        /\ PublishReturned(t)
        /\ call[t].name \notin DOMAIN subscribers
        /\ DOMAIN subscribers # {}
        /\ eventStore # "nil"
        /\ ret[t].err = NoHandlersError(call[t].name)

\* C2: every Subscribe appends its handler to the handlers of its name, and a
\* Publish that returns after its lookup found handlers has called each handler
\* of the name exactly once, in that order, whatever the handlers returned.
C2_EachHandlerOnceInOrder ==
    [][/\ \A t \in Threads :
             (call[t].op = "Publish" /\ pc[t] = "handlers" /\ pc'[t] = "returned")
                 => WhoOf(HandlerCallsIn(trace'[t])) = subscribers[call[t].name]
       /\ subscribers' # subscribers
             => \E t \in Threads :
                    /\ call[t].op = "Subscribe"
                    /\ DOMAIN subscribers' = DOMAIN subscribers \cup {call[t].name}
                    /\ \A n \in DOMAIN subscribers' :
                         subscribers'[n] = IF n = call[t].name
                                           THEN Append(Lookup(n), call[t].handler)
                                           ELSE subscribers[n]]_vars

\* a Publish has returned after the first of two different handlers failed and
\* the second was still called
C2_Witness ==
    \E t \in Threads :
        /\ PublishReturned(t)
        /\ Lookup(call[t].name) = <<"h2", "h1">>
        /\ WhoOf(HandlerCallsIn(trace[t])) = <<"h2", "h1">>
        /\ HandlerCallsIn(trace[t])[1].err # NoError

\* C3: a Publish that found handlers returns nil exactly when every handler
\* returned nil and the store, if one was called, returned nil; any other result
\* is one aggregate error that starts with the errors of the failing handlers in
\* registration order.
C3_NilIffAllSucceeded ==
    \A t \in Threads :
        (PublishReturned(t) /\ handlers[t] # <<>>) =>
            LET failed == FailedIn(HandlerCallsIn(trace[t]))
                stores == StoreCallsIn(trace[t])
            IN  /\ (ret[t].err = NoError)
                      <=> (failed = <<>> /\ \A i \in 1 .. Len(stores) : stores[i].err = NoError)
                /\ ret[t].err # NoError =>
                      /\ Head(ret[t].err) = "errors in event handlers: "
                      /\ IsPrefix(Flatten(ErrsOf(failed)), Tail(ret[t].err))

\* both handlers of a name have failed, the store has succeeded, and Publish
\* has returned the aggregate of the two handler errors
C3_Witness ==
    \E t \in Threads :
        /\ PublishReturned(t)
        /\ handlers[t] = <<"h1", "h2">>
        /\ Len(StoreCallsIn(trace[t])) = 1
        /\ StoreCallsIn(trace[t])[1].err = NoError
        /\ ret[t].err = AggregateError(<<HandlerError("h1"), HandlerError("h2")>>)

\* C4: with a store attached, a Publish that found handlers calls StoreEvent
\* exactly once, as its last call after every handler, whether handlers failed
\* or not; a StoreEvent error is the last error of the one aggregate returned.
C4_StoreOnceAfterHandlers ==
    [][\A t \in Threads :
          (call[t].op = "Publish" /\ pc[t] = "handlers" /\ pc'[t] = "returned" /\ eventStore # "nil")
              => LET tr == trace'[t]
                     last == tr[Len(tr)]
                     herrs == ErrsOf(FailedIn(HandlerCallsIn(tr)))
                 IN  /\ Len(StoreCallsIn(tr)) = 1
                     /\ last.kind = "store"
                     /\ Len(tr) = Len(subscribers[call[t].name]) + 1
                     /\ last.err # NoError
                           => ret'[t].err = AggregateError(
                                  Append(herrs, Wrap("failed to store event: ", last.err)))]_vars

\* a handler has failed, the store was called after it and failed too, and both
\* errors are in the aggregate, the store's last
C4_Witness ==
    \E t \in Threads :
        /\ PublishReturned(t)
        /\ Len(trace[t]) = 2
        /\ trace[t][1] = Invoked("handler", "h1", HandlerError("h1"))
        /\ trace[t][2] = Invoked("store", "redis", Wrap("failed to store event: ", IOError))
        /\ ret[t].err = AggregateError(<<HandlerError("h1"),
                             Wrap("failed to store event: ", Wrap("failed to store event: ", IOError))>>)

StoreGetEventsResults(eventName, limit) ==
    IF eventStore = "redis" THEN {RedisGetEvents(eventName, limit, "ok")}
    ELSE IF eventStore = "postgres" THEN PgGetEventsResults(eventName, limit)
    ELSE {}

\* the record is the event as JSON carries it: the same name, the same number
IsRecordOf(rec, name, payload) ==
    rec.name = name /\ JsonEncode(rec.payload) = JsonEncode(payload)

\* the Publish of the Caller returns nil in this step, a store being attached
PublishStored ==
    /\ call[Caller].op = "Publish"
    /\ pc[Caller] = "handlers"
    /\ pc'[Caller] = "returned"
    /\ ret'[Caller].err = NoError
    /\ eventStore # "nil"

\* GetEvents(name, 1) can only return the one record of the event
OnlyThePublished(results, name, payload) ==
    \A r \in results :
        /\ r.err = NoError
        /\ Len(r.events) = 1
        /\ IsRecordOf(r.events[1], name, payload)

C6_Redis ==
    [][(PublishStored /\ eventStore = "redis") =>
          OnlyThePublished(StoreGetEventsResults(call[Caller].name, 1)',
                           call[Caller].name, call[Caller].payload)]_vars

\* the same, for the PostgreSQL store when the clock has moved on since the last
\* row of the name was written
C6_PostgresLaterTime ==
    [][(PublishStored /\ eventStore = "postgres"
          /\ \A x \in PgRowsOf(call[Caller].name) : x.created_at < now) =>
          OnlyThePublished(StoreGetEventsResults(call[Caller].name, 1)',
                           call[Caller].name, call[Caller].payload)]_vars

\* ------------------------------------------------ properties of the stores
NoEvents == [events |-> <<>>, err |-> NoError]

\* every result GetEvents(name, limit) of the store the client calls can return
\* when the backend answers
GetEventsResults(eventName, limit) ==
    IF storeKind = "redis" THEN {RedisGetEvents(eventName, limit, "ok")}
    ELSE PgGetEventsResults(eventName, limit)

\* GetEvents(name, limit) returns the empty sequence and no error, for every limit
GetEventsEmpty(eventName) ==
    \A limit \in Limits : GetEventsResults(eventName, limit) = {NoEvents}

\* this step is a call of op on the store, for name
CallOf(op, eventName) == out = NoCall /\ out'.op = op /\ out'.name = eventName

\* C7: when ClearEvents(name) returns nil, GetEvents(name, limit) returns the
\* empty sequence and no error for every limit, and goes on doing so through
\* every step that is not a StoreEvent for that name. (What GetEvents returns
\* is a function of the stores' contents, so a step that leaves them as they
\* are needs no second look.)
C7_EmptyAfterClear ==
    [][\A n \in Names :
          /\ (CallOf("ClearEvents", n) /\ out'.err = NoError) => GetEventsEmpty(n)'
          /\ (~CallOf("StoreEvent", n) /\ storeVars' # storeVars /\ GetEventsEmpty(n))
                => GetEventsEmpty(n)']_vars

\* PostgreSQL: "b" was stored, then "a"; "a" was cleared, which left the row of
\* "b"; GetEvents("a") has returned the empty sequence
C7_Witness ==
    /\ storeKind = "postgres"
    /\ pgNextId = 3
    /\ \E r \in pgRows : pgRows = {r} /\ r.id = 1 /\ r.event_name = "b"
    /\ out = Returned("GetEvents", "a", <<>>, NoError)

\* the store holds no event of the name
NoStored(eventName) ==
    IF storeKind = "redis" THEN redisList[eventName] = <<>> ELSE PgRowsOf(eventName) = {}

\* the error is nil or the report of a backend that did not answer
NilUnlessIOFails(err) == err = NoError \/ err[Len(err)] = IOError[1]

\* C8: a ClearEvents(name) on a name with no stored events leaves the store as
\* it is and returns nil (unless the backend does not answer); a ClearEvents that
\* returns nil leaves the name with no stored events, so that a second one
\* changes nothing more.
C8_ClearIdempotent ==
    [][\A n \in Names :
          CallOf("ClearEvents", n) =>
              /\ NoStored(n) => (storeVars' = storeVars /\ NilUnlessIOFails(out'.err))
              /\ out'.err = NoError => NoStored(n)']_vars

\* PostgreSQL: only "b" was ever stored; ClearEvents("a") has returned nil and
\* the row of "b" is still there
C8_Witness ==
    /\ storeKind = "postgres"
    /\ pgNextId = 2
    /\ PgRowsOf("b") # {}
    /\ out = Returned("ClearEvents", "a", <<>>, NoError)

\* C9: Redis store: when the timeline of a name holds the keys of k >= 2 events,
\* each stored at its own time and none expired, GetEvents(name, k-1) returns the
\* k-1 records stored last, the last stored one first.
C9_RedisNewestFirst ==
    storeKind = "redis" =>
        \A n \in Names :
            LET keys == redisList[n]
                k == Len(keys)
            IN  (/\ k >= 2
                 /\ \A i \in 1 .. k : RedisExists(keys[i])
                 /\ \A i, j \in 1 .. k : keys[i] = keys[j] => i = j) =>
                    RedisGetEvents(n, k - 1, "ok") =
                        [events |-> [i \in 1 .. k - 1 |-> JsonUnmarshal(RedisGet(keys[k + 1 - i]))],
                         err |-> NoError]

\* the row of the set that was inserted i-th from the last
PgLatest(rows, i) == CHOOSE r \in rows : Cardinality({x \in rows : x.id > r.id}) = i - 1

\* rows inserted later have a later created_at
PgStrictlyIncreasing(rows) == \A x, y \in rows : x.id < y.id => x.created_at < y.created_at

\* C10: PostgreSQL store: when the rows of a name have strictly increasing
\* timestamps, GetEvents(name, limit) with limit > 0 returns min(limit, number of
\* rows retained) records: the rows inserted last, the last inserted one first.
C10_PgNewestFirst ==
    storeKind = "postgres" =>
        \A n \in Names, limit \in {l \in Limits : l > 0} :
            PgStrictlyIncreasing(PgRowsOf(n)) =>
                \A r \in PgGetEventsResults(n, limit) :
                    /\ r.err = NoError
                    /\ Len(r.events) = Min(limit, Cardinality(PgRowsOf(n)))
                    /\ \A i \in 1 .. Len(r.events) :
                         r.events[i] = JsonUnmarshal(PgLatest(PgRowsOf(n), i).event_data)

\* three rows of one name are retained, written at three
\* different times, and GetEvents has returned the two latest, the latest first
C10_Witness ==
    /\ storeKind = "postgres"
    /\ out.op = "GetEvents"
    /\ Cardinality(PgRowsOf(out.name)) = 3
    /\ PgStrictlyIncreasing(PgRowsOf(out.name))
    /\ Len(out.events) = 2
    /\ out.events[1].timestamp > out.events[2].timestamp

\* the last lim entries of a timeline
LastOf(list, lim) ==
    IF Len(list) > lim THEN SubSeq(list, Len(list) - lim + 1, Len(list)) ELSE list

\* C11: Redis store: GetEvents(name, limit) with limit > 0 returns no error when
\* keys of the timeline are missing or expired; it returns the records of exactly
\* the keys among the last limit timeline entries that still exist, and skips
\* the others.
C11_RedisSkipsMissingKeys ==
    storeKind = "redis" =>
        \A n \in Names, limit \in {l \in Limits : l > 0} :
            LET live == SelectSeq(LastOf(redisList[n], limit),
                                  LAMBDA k : \E e \in redisKV : e.key = k)
                r == RedisGetEvents(n, limit, "ok")
            IN  /\ r.err = NoError
                /\ Len(r.events) = Len(live)
                /\ \A i \in 1 .. Len(live) :
                     \E e \in redisKV : e.key = live[i] /\ r.events[i] = JsonUnmarshal(e.data)

\* the first key of a two-entry timeline has expired, the second has not, and
\* GetEvents has returned the one record left, without an error
C11_Witness ==
    /\ storeKind = "redis"
    /\ out.op = "GetEvents"
    /\ out.err = NoError
    /\ Len(redisList[out.name]) = 2
    /\ ~RedisExists(redisList[out.name][1])
    /\ RedisExists(redisList[out.name][2])
    /\ out.events = <<JsonUnmarshal(RedisGet(redisList[out.name][2]))>>

\* ------------------------------------- properties of a configured store
\* C12: PostgreSQL store constructed with Config.MaxEventsPerType = M: a
\* StoreEvent that returns nil leaves at most M rows of the event's name in the
\* table (after more than M of them, the M rows stored last).
C12_PgKeepsConfiguredMax ==
    [][(storeKind = "postgres" /\ out = NoCall /\ out'.op = "StoreEvent" /\ out'.err = NoError)
         => Cardinality({r \in pgRows' : r.event_name = out'.name})
                <= config.postgres.MaxEventsPerType]_vars

\* C13: Redis store constructed with Config.MaxEventsPerType = M: no name has
\* more than M entries in its timeline, nor more than M event keys.
C13_RedisKeepsConfiguredMax ==
    storeKind = "redis" =>
        \A n \in Names :
            /\ Len(redisList[n]) <= config.redis.MaxEventsPerType
            /\ Cardinality({e \in redisKV : e.data.name = n}) <= config.redis.MaxEventsPerType

\* C14: on both backends GetEvents(name, limit) with limit <= 0 returns what
\* GetEvents(name, M) returns, M being the MaxEventsPerType the store was
\* constructed with.
C14_NonPositiveLimitIsConfiguredMax ==
    \A n \in Names, limit \in {l \in Limits : l <= 0} :
        /\ storeKind = "redis" =>
              RedisGetEvents(n, limit, "ok")
                  = RedisGetEvents(n, config.redis.MaxEventsPerType, "ok")
        /\ storeKind = "postgres" =>
              PgGetEventsResults(n, limit)
                  = PgGetEventsResults(n, config.postgres.MaxEventsPerType)

\* C15: Redis store: every event key expires when the EventTTL the store was
\* constructed with has elapsed since the event was stored, so no key written
\* at time ts exists at ts + EventTTL or later, and every key exists before.
C15_RedisKeyLivesConfiguredTTL ==
    storeKind = "redis" =>
        \A e \in redisKV : e.exp = e.data.timestamp + config.redis.EventTTL

\* ------------------------------------ properties of the backends side by side
\* the name has fewer events than the retention cap in both stores, stored at
\* different times, and none of its keys has expired
UnderCapNoExpiry(n) ==
    /\ Len(redisList[n]) < RedisDefaultConfig.MaxEventsPerType
    /\ Cardinality(PgRowsOf(n)) < PgDefaultConfig.MaxEventsPerType
    /\ \A i, j \in 1 .. Len(redisList[n]) : i # j => redisList[n][i] # redisList[n][j]
    /\ PgStrictlyIncreasing(PgRowsOf(n))
    /\ \A i \in 1 .. Len(redisList[n]) : RedisExists(redisList[n][i])

\* C16: the same StoreEvent, GetEvents and ClearEvents calls made on a Redis store
\* and on a PostgreSQL store (fewer events per name than the cap, stored at
\* different times, nothing expired): every GetEvents returns the same records
\* in the same order from both.
C16_BackendsInterchangeable ==
    (storeKind = "both" /\ out.op = "GetEvents" /\ UnderCapNoExpiry(out.name))
        => out.events[1] = out.events[2]

\* --------------------------- properties of the Mediator's use of its store
\* everything the store can answer to GetEvents(eventName, limit)
StoreAnswers(store, eventName, limit) ==
    IF store = "redis"
    THEN {RedisGetEvents(eventName, limit, io) : io \in RedisReadIO}
    ELSE {PgGetEvents(eventName, limit, io, ord) :
            io \in PgReadIO, ord \in PgOrderByCreatedAtDesc(PgRowsOf(eventName))}

\* thread t returns from a GetEvents or a ClearEvents in this step
ReadReturns(t) ==
    pc[t] = "running" /\ pc'[t] = "returned" /\ call[t].op \in {"GetEvents", "ClearEvents"}

\* C17: with no store attached GetEvents and ClearEvents return the error
\* "no event store configured" (GetEvents no events) and leave registry and
\* stores alone; with a store attached they return what that store returns for
\* the same name and limit, and do to it what its ClearEvents does.
C17_ReadsGoToTheStore ==
    [][\A t \in Threads :
         ReadReturns(t) =>
            /\ subscribers' = subscribers
            /\ eventStore = "nil" =>
                  (ret'[t] = Result(<<>>, <<"no event store configured">>) /\ UNCHANGED storeVars)
            /\ (eventStore # "nil" /\ call[t].op = "GetEvents") =>
                  /\ ret'[t] \in StoreAnswers(eventStore, call[t].name, call[t].limit)
                  /\ UNCHANGED storeVars
            /\ (eventStore = "redis" /\ call[t].op = "ClearEvents") =>
                  \E io \in RedisReadIO :
                      /\ ret'[t] = Result(<<>>, RedisClearEventsErr(call[t].name, io))
                      /\ RedisClearEvents(call[t].name, io)
            /\ (eventStore = "postgres" /\ call[t].op = "ClearEvents") =>
                  \E io \in PgClearIO :
                      /\ ret'[t] = Result(<<>>, PgClearEventsErr(call[t].name, io))
                      /\ PgClearEvents(call[t].name, io)
      ]_vars

\* a GetEvents has returned the one event of the attached store
C17_Witness ==
    /\ pc[Caller] = "returned"
    /\ call[Caller].op = "GetEvents"
    /\ eventStore # "nil"
    /\ ret[Caller].err = NoError
    /\ Len(ret[Caller].events) = 1
    /\ ret[Caller] \in StoreAnswers(eventStore, call[Caller].name, call[Caller].limit)

\* thread t returns from SetEventStore in this step
SetEventStoreReturns(t) ==
    pc[t] = "wpending" /\ call[t].op = "SetEventStore" /\ pc'[t] = "idle"

\* thread t goes through the end of Publish in this step: store call and return
PublishReturns(t) ==
    pc[t] = "handlers" /\ call[t].op = "Publish" /\ pc'[t] = "returned"

\* C18: SetEventStore(s) makes s the Mediator's store, and nothing else changes
\* the store; a Publish persists to the store attached last and touches no other
\* store; with the store set to nil a Publish makes no StoreEvent call and
\* returns nil exactly when no handler has failed, and GetEvents and ClearEvents
\* return the no-store error.
C18_SetEventStoreReplaces ==
    [][/\ \A t \in Threads : SetEventStoreReturns(t) => eventStore' = call[t].store
       /\ eventStore' # eventStore => \E t \in Threads : SetEventStoreReturns(t)
       /\ \A t \in Threads :
            PublishReturns(t) =>
                /\ eventStore = "nil" =>
                      /\ StoreCallsIn(trace'[t]) = <<>>
                      /\ UNCHANGED storeVars
                      /\ ret'[t].err = NoError <=> FailedIn(HandlerCallsIn(trace'[t])) = <<>>
                /\ eventStore # "nil" => WhoOf(StoreCallsIn(trace'[t])) = <<eventStore>>
                /\ eventStore = "redis" => UNCHANGED <<pgRows, pgNextId>>
                /\ eventStore = "postgres" => UNCHANGED <<redisKV, redisList>>
       /\ \A t \in Threads :
            (ReadReturns(t) /\ eventStore = "nil") => ret'[t].err = <<"no event store configured">>
      ]_vars

\* a first Publish went to the Redis store; the PostgreSQL store was attached
\* in its place, and the next Publish has gone to it and to it only
C18_Witness ==
    /\ eventStore = "postgres"
    /\ PublishReturned(Caller)
    /\ ret[Caller].err = NoError
    /\ WhoOf(StoreCallsIn(trace[Caller])) = <<"postgres">>
    /\ Len(redisList[call[Caller].name]) = 1
    /\ Cardinality(redisKV) = 1
    /\ Cardinality(pgRows) = 1

\* the threads that hold the read lock inside Publish, GetEvents or ClearEvents
InsideRead == {t \in Threads : pc[t] \in {"running", "handlers"}}

\* C19: the store is never replaced while a Publish, GetEvents or ClearEvents is
\* between its RLock and its RUnlock, so each such call sees one store value from
\* its nil check to its store call, whatever the interleaving with SetEventStore.
C19_NoSwapInsideRead ==
    [][eventStore' # eventStore => InsideRead = {}]_vars

\* a SetEventStore that replaces the store waits while a Publish runs its handlers
C19_Witness ==
    \E t, u \in Threads :
        /\ pc[t] = "handlers"
        /\ call[t].op = "Publish"
        /\ pc[u] = "wpending"
        /\ call[u].op = "SetEventStore"
        /\ call[u].store # eventStore

\* ------------------------------------------------ properties of the singleton
\* C20: whatever the interleaving of the first calls of New and GetMediator, at
\* most one Mediator is constructed and every call, first or later, returns that
\* one instance, never nil.
C20_OneInstance ==
    /\ built <= 1
    /\ \A t \in Threads : \A i \in 1 .. Len(gret[t]) : gret[t][i] = 1 /\ built = 1

\* ------------------------------------------------ properties of the registry
\* thread t returns from Subscribe in this step
SubscribeReturns(t) ==
    pc[t] = "wpending" /\ call[t].op = "Subscribe" /\ pc'[t] = "idle"

\* how often x occurs in the sequence s
Count(s, x) == Cardinality({i \in 1 .. Len(s) : s[i] = x})

\* C22: Subscribe(name, h) makes name's handler list one longer, with one more
\* occurrence of h, whether h is in the list already or not; a Publish of a name
\* calls every handler as often as it occurs in the name's list.
C22_SubscribeAppends ==
    [][/\ \A t \in Threads :
            SubscribeReturns(t) =>
                /\ call[t].name \in DOMAIN subscribers'
                /\ Len(subscribers'[call[t].name]) = Len(Lookup(call[t].name)) + 1
                /\ Count(subscribers'[call[t].name], call[t].handler)
                       = Count(Lookup(call[t].name), call[t].handler) + 1
       /\ \A t \in Threads :
            PublishReturns(t) =>
                \A h \in HandlerIds :
                    Count(WhoOf(HandlerCallsIn(trace'[t])), h) = Count(Lookup(call[t].name), h)
      ]_vars

\* one handler subscribed twice under a name, and called twice by a Publish of it
C22_Witness ==
    /\ PublishReturned(Caller)
    /\ \E h \in HandlerIds :
          /\ Lookup(call[Caller].name) = <<h, h>>
          /\ WhoOf(HandlerCallsIn(trace[Caller])) = <<h, h>>

\* C23: the registry and the store change in no step taken while a Publish,
\* GetEvents or ClearEvents holds the read lock; the handlers a Publish goes
\* through, and has called when it returns, are the list its name has in the
\* registry, whatever Subscribe calls other threads make meanwhile.
C23_RegistryFrozenInsideRead ==
    [][/\ (subscribers' # subscribers \/ eventStore' # eventStore) => InsideRead = {}
       /\ \A t \in Threads : pc[t] = "handlers" => handlers[t] = Lookup(call[t].name)
       /\ \A t \in Threads :
            PublishReturns(t) => WhoOf(HandlerCallsIn(trace'[t])) = Lookup(call[t].name)
      ]_vars

\* a Subscribe for the name being published waits while the Publish, one handler
\* called, goes on
C23_Witness ==
    \E t, u \in Threads :
        /\ pc[t] = "handlers"
        /\ call[t].op = "Publish"
        /\ idx[t] = 2
        /\ pc[u] = "wpending"
        /\ call[u].op = "Subscribe"
        /\ call[u].name = call[t].name

\* ---------------------------------------------- properties of the lock
\* the activations that are inside a Publish and hold the read lock
PublishInside == {a \in Activations : call[a].op = "Publish" /\ pc[a] \in {"running", "handlers"}}

\* C21: a Publish never waits for the lock while another Publish is inside its
\* handlers or its store call: Publish calls do not stall each other, whether or
\* not a Subscribe or a SetEventStore is waiting for the lock.
C21_PublishNotStalledByPublish ==
    \A a \in Activations :
        (call[a].op = "Publish" /\ pc[a] = "rwait") => PublishInside = {}

\* C24: a Publish whose handler publishes on the same Mediator returns, whatever
\* Subscribe and SetEventStore calls another goroutine makes meanwhile.
C24_NestedPublishReturns ==
    (call[Caller].op = "Publish" /\ call[Nested].op = "Publish" /\ pc[Caller] = "handlers")
        ~> (pc[Caller] = "returned")

\* C25: every Subscribe and every SetEventStore returns, a call made from inside
\* a handler included.
C25_WritersReturn ==
    \A a \in {Writer, Nested} :
        (pc[a] \in {"wqueue", "wpending"}) ~> (pc[a] = "idle")

\* ------------------------------------------- properties of stored records
\* a StoreEvent of the client returns in this step, with nil
StoreEventSucceeds == out = NoCall /\ out'.op = "StoreEvent" /\ out'.err = NoError

\* the ids of the rows of a name that a step has deleted, the row it has
\* inserted and deleted at once included
PgDeletedIds(name) ==
    ({r.id : r \in PgRowsOf(name)} \cup (IF pgNextId' > pgNextId THEN {pgNextId} ELSE {}))
        \ {r.id : r \in pgRows'}

\* C26: PostgreSQL store: the rows of a name are ordered by insertion, also when
\* their created_at values are equal: GetEvents returns the rows inserted last,
\* the last one first, and a trim deletes only rows inserted before every row
\* it keeps.
C26_PgStableOrder ==
    [][storeKind = "postgres" =>
         /\ \A n \in Names, limit \in {l \in Limits : l > 0} :
              \A r \in PgGetEventsResults(n, limit) :
                  \A i \in 1 .. Len(r.events) :
                      r.events[i] = JsonUnmarshal(PgLatest(PgRowsOf(n), i).event_data)
         /\ (out = NoCall /\ out'.op = "StoreEvent") =>
              \A gone \in PgDeletedIds(out'.name) :
                  \A kept \in {r \in pgRows' : r.event_name = out'.name} : gone < kept.id
      ]_vars

\* C27: a StoreEvent that returns nil leaves every record that exists as it is
\* and adds one record of its own, on both backends, also when its timestamp is
\* that of an earlier record; PostgreSQL rows go only by the trim.
C27_RecordsNeverOverwritten ==
    [][StoreEventSucceeds =>
         /\ storeKind = "redis" =>
              /\ \A e \in redisKV : e \in redisKV'
              /\ Cardinality(redisKV') = Cardinality(redisKV) + 1
         /\ storeKind = "postgres" =>
              /\ \A r \in pgRows : r \in pgRows' \/ (\A x \in pgRows' : x.id # r.id)
              /\ Cardinality(PgRowsOf(out'.name)) < PgDefaultConfig.MaxEventsPerType =>
                    (pgRows \subseteq pgRows' /\ Cardinality(pgRows') = Cardinality(pgRows) + 1)
      ]_vars

\* C28: Redis store: a timeline changes only by the append of one key at its
\* tail, made by a StoreEvent whose SET has written that key (the key exists
\* when it is appended, and is a key of that name), or by ClearEvents emptying
\* it; a StoreEvent that fails after its SET leaves the key out of the timeline.
C28_TimelineEntriesWereSet ==
    [][storeKind = "redis" =>
         \A n \in Names :
            redisList'[n] # redisList[n] =>
                \/ redisList'[n] = <<>>
                \/ /\ redisList'[n] = Append(redisList[n], RedisKey(n, now))
                   /\ \E e \in redisKV' : e.key = RedisKey(n, now) /\ e.data.name = n
      ]_vars

\* a StoreEvent has failed at its RPUSH: its key is stored and is not in the
\* timeline, which holds the key of an earlier StoreEvent
C28_Witness ==
    /\ storeKind = "redis"
    /\ out.op = "StoreEvent"
    /\ out.err = Wrap("failed to push event to list: ", IOError)
    /\ Len(redisList[out.name]) = 1
    /\ RedisExists(redisList[out.name][1])
    /\ \E e \in redisKV : e.data.name = out.name /\ e.key \notin Range(redisList[out.name])

\* C29: Redis store: a ClearEvents(name) that returns nil leaves no event key
\* of the name and an empty timeline, also after a StoreEvent that got no
\* further than its SET.
C29_ClearLeavesNoKey ==
    [][(storeKind = "redis" /\ out = NoCall /\ out'.op = "ClearEvents" /\ out'.err = NoError)
         => /\ redisList'[out'.name] = <<>>
            /\ \A e \in redisKV' : e.data.name # out'.name
      ]_vars

\* the name has no live event key
AllExpired(n) == \A e \in redisKV : e.data.name # n

\* C30: Redis store: when every event key of a name has expired, the name's
\* timeline becomes empty in the end, unless a new event of the name is stored.
C30_ExpiredHistoryGoes ==
    \A n \in Names :
        (storeKind = "redis" /\ redisList[n] # <<>> /\ AllExpired(n))
            ~> (redisList[n] = <<>> \/ ~AllExpired(n))

\* ------------------------------------------ properties of a failed Publish
\* thread t returns in this step from a Publish of a name that has no key
PublishOfUnknownReturns(t) ==
    /\ call[t].op = "Publish"
    /\ pc[t] \in {"running", "handlers"}
    /\ pc'[t] = "returned"
    /\ call[t].name \notin DOMAIN subscribers

\* C32: a Publish of a name with no registered handler returns the no-handlers
\* error having invoked no handler and made no StoreEvent call, also with a
\* store attached: the step in which it returns and the step in which it was
\* called leave both stores, the registry and the attached store as they are.
C32_FailedPublishHasNoEffect ==
    [][\A t \in Threads :
          /\ PublishOfUnknownReturns(t) =>
                /\ ret'[t].err = NoHandlersError(call[t].name)
                /\ trace'[t] = <<>>
                /\ UNCHANGED <<storeVars, storeCalls, subscribers, eventStore>>
          /\ (pc[t] = "idle" /\ call'[t].op = "Publish") =>
                UNCHANGED <<storeVars, storeCalls, subscribers, eventStore>>
      ]_vars

\* a Publish of an unsubscribed name has failed with a Redis store attached that
\* holds nothing, and has made no call
C32_Witness ==
    /\ PublishReturned(Caller)
    /\ ret[Caller].err = NoHandlersError(call[Caller].name)
    /\ eventStore = "redis"
    /\ trace[Caller] = <<>>
    /\ redisKV = {}
    /\ storeCalls = 0

\* C33: PostgreSQL store: a StoreEvent that returns an error (marshal, insert or
\* trim failure) leaves no row of its event in the table, so that no later
\* GetEvents returns it, and a StoreEvent that has inserted a row returns nil.
C33_PgStoreAllOrNothing ==
    [][(storeKind = "postgres" /\ out = NoCall /\ out'.op = "StoreEvent") =>
          /\ out'.err # NoError =>
                /\ \A r \in pgRows' : r.id < pgNextId
                /\ \A n \in Names, limit \in Limits :
                      n = out'.name => PgGetEventsResults(n, limit)' = PgGetEventsResults(n, limit)
          /\ pgNextId' > pgNextId => out'.err = NoError
      ]_vars

\* ------------------------------------------------ properties of other names
\* the records the store holds for a name: its timeline and its keys, or its rows
RecordsOf(eventName) ==
    IF storeKind = "redis"
    THEN <<redisList[eventName], {e \in redisKV : e.key[1] = eventName}>>
    ELSE <<PgRowsOf(eventName)>>

\* C35: on both backends a StoreEvent of name a (its trim included) and a
\* ClearEvents(a), whatever they return, leave the records of every other name b
\* as they are, and with them everything GetEvents(b, limit) can return.
C35_OtherNamesUntouched ==
    [][\A a \in Names :
          (CallOf("StoreEvent", a) \/ CallOf("ClearEvents", a)) =>
              \A b \in Names \ {a} :
                  /\ RecordsOf(b)' = RecordsOf(b)
                  /\ \A limit \in Limits : GetEventsResults(b, limit)' = GetEventsResults(b, limit)
      ]_vars

\* PostgreSQL: a StoreEvent of "a" has returned nil in a table that holds three
\* rows of "a" and one of "b": the row of "b" is the first that was inserted
C35_Witness ==
    /\ storeKind = "postgres"
    /\ out = Returned("StoreEvent", "a", <<>>, NoError)
    /\ Cardinality(PgRowsOf("a")) = PgDefaultConfig.MaxEventsPerType
    /\ \E r \in pgRows : PgRowsOf("b") = {r} /\ r.id = 1

\* ---------------------------------------------- properties of the registry
\* C36: in every step each name's handler list is a prefix of what it is after
\* the step; a Subscribe(name, h) puts h at the end of name's list and leaves
\* the lists of the other names and the attached store as they are; no step of
\* Publish, GetEvents, ClearEvents or SetEventStore changes the registry.
C36_RegistryGrowsByAppending ==
    [][/\ \A n \in DOMAIN subscribers :
            n \in DOMAIN subscribers' /\ IsPrefix(subscribers[n], subscribers'[n])
       /\ \A t \in Threads :
            SubscribeReturns(t) =>
                /\ DOMAIN subscribers' = DOMAIN subscribers \cup {call[t].name}
                /\ subscribers'[call[t].name] = Lookup(call[t].name) \o <<call[t].handler>>
                /\ \A n \in DOMAIN subscribers \ {call[t].name} : subscribers'[n] = subscribers[n]
                /\ eventStore' = eventStore
       /\ (\A t \in Threads : ~SubscribeReturns(t)) => subscribers' = subscribers
      ]_vars

\* "a" has two different handlers and "b" none; a store is attached and a
\* Publish of "a" has returned
C36_Witness ==
    /\ DOMAIN subscribers = {"a"}
    /\ subscribers["a"] = <<"h1", "h2">>
    /\ eventStore = "postgres"
    /\ PublishReturned(Caller)
    /\ call[Caller].name = "a"

\* every key of the registry has a handler
KeysHaveHandlers == \A n \in DOMAIN subscribers : Len(subscribers[n]) >= 1

\* C37: every name that is a key of the registry has at least one handler, so
\* that "the name is a key" and "the name has handlers" are one condition; a
\* Publish returns the no-handlers error only for a name for which no Subscribe
\* has returned, and goes through at least one handler otherwise.
C37_KeysHaveHandlers ==
    [][/\ KeysHaveHandlers /\ KeysHaveHandlers'
       /\ \A n \in Names : Exists(n) <=> Lookup(n) # <<>>
       /\ \A t \in Threads :
            (call[t].op = "Publish" /\ pc[t] # "returned" /\ pc'[t] = "returned") =>
                /\ ret'[t].err = NoHandlersError(call[t].name) => ~Exists(call[t].name)
                /\ Exists(call[t].name) => Len(HandlerCallsIn(trace'[t])) >= 1
      ]_vars

\* a Publish of "a" has called its one handler and returned nil, and "b" is no key
C37_Witness ==
    /\ PublishReturned(Caller)
    /\ call[Caller].name = "a"
    /\ DOMAIN subscribers = {"a"}
    /\ Len(subscribers["a"]) = 1
    /\ ret[Caller].err = NoError
    /\ Len(HandlerCallsIn(trace[Caller])) = 1

\* ------------------------------------------------- properties of event names
\* C38: no event with the empty string as its name is registered, dispatched or
\* persisted: the registry has no key "", no Publish of "" has called a handler
\* or a store, and no stored row has the event name "".
C38_NamesNonEmpty ==
    /\ "" \notin DOMAIN subscribers
    /\ \A t \in Threads : (call[t].op = "Publish" /\ call[t].name = "") => trace[t] = <<>>
    /\ \A r \in pgRows : r.event_name # ""

\* -------------------------------- properties of a store shared by goroutines
\* no StoreEvent is under way
Quiet == \A t \in Threads : inflight[t] = NoStoreCall

\* the entries of the name's timeline whose events have not expired
LiveEntries(eventName) ==
    {i \in 1 .. Len(redisList[eventName]) : RedisExists(redisList[eventName][i])}

\* C31: Redis store: GetEvents(name, limit) with limit > 0 returns as many
\* records as the name has unexpired events in its timeline, up to limit:
\* expired entries take no place of a live event in the window that is read.
C31_ExpiredNeverDisplaceLive ==
    (storeKind = "redis" /\ Quiet) =>
        \A n \in Names, limit \in {l \in Limits : l > 0} :
            /\ RedisGetEvents(n, limit, "ok").err = NoError
            /\ Len(RedisGetEvents(n, limit, "ok").events) = Min(limit, Cardinality(LiveEntries(n)))

\* C34: PostgreSQL store: whenever no StoreEvent is under way a name has no
\* more rows than the retention cap; a StoreEvent adds one row, and its trim
\* leaves the cap's number of rows when there are more and deletes none when
\* there are not, whatever other StoreEvent calls do in between.
C34_PgConcurrentTrim ==
    [][storeKind = "postgres" =>
          /\ Quiet' => \A n \in Names : Cardinality(PgRowsOf(n))' <= PgDefaultConfig.MaxEventsPerType
          /\ \A t \in Threads :
                (inflight[t].stage = "inserted" /\ inflight'[t] = NoStoreCall) =>
                    \A n \in Names :
                        Cardinality(PgRowsOf(n))' =
                            IF n = inflight[t].name
                            THEN Min(Cardinality(PgRowsOf(n)), PgDefaultConfig.MaxEventsPerType)
                            ELSE Cardinality(PgRowsOf(n))
      ]_vars
====
